---- MODULE Spec2Model ----
(***************************************************************************)
(* Monte Carlo tree search of gym-locm (gym_locm/algorithms/mcts.py) over  *)
(* an abstract finite game.  The rules engine and the search-node adapter  *)
(* (gym_locm.engine, Node) are modelled from the specification: the game   *)
(* is an arbitrary finite acyclic game chosen in Init, in which every      *)
(* position has an ordered list of successor positions (one per legal      *)
(* action, so the same successor may be listed twice), a current player    *)
(* and, when it has no successors, a winner.  Two nodes are equal when     *)
(* they were created for the same position.                                *)
(*                                                                         *)
(* The UCT score is computed in fixed point, in units of 1/Scale; for      *)
(* visit counts up to 7 it orders any two children as the floating-point   *)
(* formula does, ties included.                                            *)
(*                                                                         *)
(* Further specifications over the same variables: SpecGame (the rules     *)
(* engine played by the game loops), SpecSteps (do_rollout one loop round  *)
(* at a time), SpecRun (the shared tally of toolbox/runner.py under any    *)
(* interleaving of the worker processes) and SpecTrain (the adjustment of  *)
(* the hyperparameters in util/interleaved-self-play.py).                  *)
(***************************************************************************)
EXTENDS Integers, Sequences, FiniteSets, TLC

\* ------------------------------------------------------------------ bounds
MaxNode == 2        \* positions of the game are 0..MaxNode, 0 is the root
MaxRollouts == 4    \* do_rollout calls per behaviour
MaxTurns == 4       \* PASS actions per game
MaxSteps == 6       \* n_steps and nminibatches given are at most MaxSteps + 1/2
MaxGames == 3       \* games a run evaluates (--games)
MaxWorkers == 3     \* worker processes of a run (--processes)

\* ------------------------------------------------------- sizes of the game
HandCapacity == 1    \* cards a hand holds
LaneCapacity == 1    \* creatures a lane holds
ManaCap == 2         \* cap of the base mana
StartHealth == 2     \* health of a player at game start
DraftSize == 2       \* cards a player drafts

\* --------------------------------------------------------------- constants
DRAFT == 0
BATTLE == 1
ENDED == 2
LEFT == 0
RIGHT == 1
FIRST == 0
SECOND == 1
None == -1
ExplorationWeightCenti == 141   \* exploration_weight=1.41, in hundredths
Scale == 10000                  \* fixed-point unit of the UCT score (1e-4)

VARIABLES
    kids,        \* game: position -> list of successor positions
    player,      \* game: position -> current player
    winner,      \* game: position -> winner (None while the game runs)
    nodeState,   \* node -> the game state object the node holds (node.state)
    Q,           \* self.Q: node -> total reward
    N,           \* self.N: node -> visit count
    children,    \* self.children: expanded node -> list of children
    rollouts,    \* number of do_rollout calls made
    op,          \* the last call: "init", "do_rollout", "choose"
    path,        \* path of the last do_rollout
    uctAt,       \* nodes at which the last _select ran _uct_select
    reward,      \* reward of the last do_rollout
    actCalls,    \* agent act() calls made by the last _simulate
    simEnd,      \* position in which the last playout ended
    expandCalls, \* node -> number of find_children calls made by _expand
    err,         \* exception raised by the last call ("none" if it returned)
    chooseArg,   \* argument of the last choose
    chosen,      \* node returned by the last choose (None if none)
    pc,          \* where a do_rollout taken step by step stands ("idle" if none)
    cur,         \* the node the walk of _select stands at (None if none)
    gameState,   \* a game of the rules engine, as the runner plays it
    lastErr,     \* error kind the last game.act call surfaced ("none" if none)
    asked,       \* the act calls the last round of a game loop made
    lastAct,     \* the actions the last round of a game loop applied
    given,       \* the hyperparameters train_and_eval is called with, in halves
    params,      \* params of train_and_eval (in halves until made integers)
    pcTrain,     \* where train_and_eval stands ("idle" if not called)
    wins_by_p0,  \* the shared tally: <<games won by FIRST, games played>>
    lock,        \* the worker that holds the lock (None if it is free)
    n_games,     \* args.games
    processes,   \* args.processes
    handed,      \* number of games pool.map has handed to workers
    wpc,         \* worker -> where its evaluate call stands ("idle" if none)
    wgame,       \* worker -> game.winner of the game it evaluates
    tmp,         \* worker -> the tally entry it has fetched for +=
    seen,        \* worker -> the (wins, games) it has read for its progress line
    written,     \* the pairs the tally held when a worker had written both entries
    returned,    \* the winners evaluate has returned: how many, how many FIRST
    runpc,       \* where run stands: "map" until pool.map has returned
    final        \* the (wins, games) run reads after pool.map

searchVars == <<kids, player, winner, nodeState, Q, N, children, rollouts, op,
                path, uctAt, reward, actCalls, simEnd, expandCalls, err,
                chooseArg, chosen, pc, cur>>
gameVars == <<gameState, lastErr, asked, lastAct>>
trainVars == <<given, params, pcTrain>>
tallyVars == <<wins_by_p0, lock, n_games, processes, handed, wpc, wgame, tmp,
               seen, written, returned, runpc, final>>
vars == <<searchVars, gameVars, trainVars, tallyVars>>

Nodes == 0..MaxNode
Root == 0
Players == {FIRST, SECOND}

Last(s) == s[Len(s)]
Range(s) == {s[i] : i \in DOMAIN s}

\* ------------------------------------------------------- the family of games
\* Successors carry larger numbers than their position (the game is finite
\* and acyclic); a position has at most two legal actions, which may lead to
\* the same successor, to a successor of the sibling, or to distinct ones.
Succs(n) == {m \in Nodes : m > n /\ m <= n + 2}

KidLists(n) ==
    {<<>>} \cup {<<a>> : a \in Succs(n)} \cup {<<a, b>> : a, b \in Succs(n)}

RECURSIVE KidMaps(_)
KidMaps(n) ==
    IF n > MaxNode THEN {<<>>}
    ELSE {(n :> l) @@ rest : l \in KidLists(n), rest \in KidMaps(n + 1)}

RECURSIVE ReachFrom(_, _)
ReachFrom(k, n) == {n} \cup UNION {ReachFrom(k, k[n][i]) : i \in DOMAIN k[n]}

\* One representative per game: the positions reachable from the root are
\* 0..j, the others have no successors.
Canonical(k) ==
    LET R == ReachFrom(k, Root) IN
    /\ \A n \in R : \A m \in Nodes : m < n => m \in R
    /\ \A n \in Nodes \ R : k[n] = <<>>

\* ------------------------------------------------- the search-node adapter
\* A node is identified (hash, equality) with the position it was created
\* for; node.state is the game object it holds.
is_terminal(node) == winner[nodeState[node]] # None

find_children(node) == kids[nodeState[node]]

current_player(node) == player[nodeState[node]]

\* clone(): an independent copy, equal in value to the original.
clone(state) == state

\* ----------------------------------------------------------- rewards, enums
\* PlayerOrder.opposing
opposing(p) == (p + 1) % 2

\* WinLossRewardFunction.calculate(state, for_player)
calculate(state, for_player) ==
    IF winner[state] = for_player THEN 1
    ELSE IF winner[state] = opposing(for_player) THEN -1
    ELSE 0

\* ------------------------------------------------------------ arithmetic
\* floor(ln(n) * Scale) for n = 1..12
LnTable ==
    <<0, 6931, 10986, 13862, 16094, 17917, 19459, 20794, 21972, 23025,
      23978, 24849>>

RECURSIVE IsqrtIn(_, _, _)
IsqrtIn(x, lo, hi) ==
    IF lo = hi THEN lo
    ELSE LET mid == (lo + hi + 1) \div 2 IN
         IF mid * mid <= x THEN IsqrtIn(x, mid, hi) ELSE IsqrtIn(x, lo, mid - 1)

\* floor(sqrt(x)) for 0 <= x < 2^30
Isqrt(x) == IsqrtIn(x, 0, 32767)

\* ----------------------------------------------------------------- MCTS
\* self is the record [Q, N, children] of one MCTS instance.

\* uct(n) of _uct_select, in units of 1/Scale.
uct(self, log_n_vertex, n) ==
    (self.Q[n] * Scale) \div self.N[n]
    + (ExplorationWeightCenti * Isqrt((log_n_vertex * Scale) \div self.N[n])) \div 100

\* max(seq, key=uct) of a non-empty list: the first entry that no entry beats
MaxByUct(self, log_n_vertex, seq) ==
    LET i == CHOOSE i \in DOMAIN seq :
                 /\ \A j \in DOMAIN seq :
                       uct(self, log_n_vertex, seq[j]) <= uct(self, log_n_vertex, seq[i])
                 /\ \A j \in 1..(i - 1) :
                       uct(self, log_n_vertex, seq[j]) < uct(self, log_n_vertex, seq[i])
    IN seq[i]

_uct_select(self, node) ==
    LET ch == self.children[node] IN
    IF \E i \in DOMAIN ch : ch[i] \notin DOMAIN self.children
    THEN [err |-> "AssertionError", node |-> node]
    ELSE IF self.N[node] = 0
    THEN [err |-> "ValueError", node |-> node]
    ELSE IF \E i \in DOMAIN ch : self.N[ch[i]] = 0
    THEN [err |-> "ZeroDivisionError", node |-> node]
    ELSE [err |-> "none", node |-> MaxByUct(self, LnTable[self.N[node]], ch)]

\* unexplored.pop(): the last element of the list
Pop(unexplored) == unexplored[Len(unexplored)]

\* every child counted as unexplored, expanded or not
Unexplored_all(self, node) == self.children[node]

\* no child counted as unexplored
Unexplored_none(self, node) == <<>>

Unexplored(self, node) ==
    SelectSeq(self.children[node], LAMBDA item : item \notin DOMAIN self.children)

\* the walk of _select that has reached node with path gone through so far;
\* uctAt lists the nodes at which _uct_select was called
RECURSIVE SelectWalk(_, _, _, _)
SelectWalk(self, node, pathSoFar, uctSoFar) ==
    LET p == Append(pathSoFar, node) IN
    IF \/ node \notin DOMAIN self.children
       \/ self.children[node] = <<>>
       \/ is_terminal(node)
    THEN [err |-> "none", path |-> p, uctAt |-> uctSoFar]
    ELSE LET unexplored == Unexplored(self, node) IN
         IF unexplored # <<>>
         THEN [err |-> "none", path |-> Append(p, Pop(unexplored)), uctAt |-> uctSoFar]
         ELSE LET u == _uct_select(self, node) IN
              IF u.err # "none"
              THEN [err |-> u.err, path |-> p, uctAt |-> Append(uctSoFar, node)]
              ELSE SelectWalk(self, u.node, p, Append(uctSoFar, node))

\* one round of the loop of _select, standing at node: the path and the list
\* of _uct_select calls after it, whether the walk has returned, and the node
\* the next round stands at
SelectRound(self, node, pathSoFar, uctSoFar) ==
    LET p == Append(pathSoFar, node) IN
    IF \/ node \notin DOMAIN self.children
       \/ self.children[node] = <<>>
       \/ is_terminal(node)
    THEN [err |-> "none", done |-> TRUE, path |-> p, uctAt |-> uctSoFar, node |-> node]
    ELSE LET unexplored == Unexplored(self, node) IN
         IF unexplored # <<>>
         THEN [err |-> "none", done |-> TRUE, path |-> Append(p, Pop(unexplored)),
               uctAt |-> uctSoFar, node |-> node]
         ELSE LET u == _uct_select(self, node) IN
              [err |-> u.err, done |-> u.err # "none", path |-> p,
               uctAt |-> Append(uctSoFar, node), node |-> u.node]

_select(self, node) == SelectWalk(self, node, <<>>, <<>>)

\* _expand that calls find_children whether or not the node is a key
_expand_always(self, calls, node) ==
    [children |-> (node :> find_children(node)) @@ self.children,
     expandCalls |-> [calls EXCEPT ![node] = @ + 1]]

\* _expand that makes keys of the node and of each of its children as well
_expand_eager(self, calls, node) ==
    IF node \in DOMAIN self.children
    THEN [children |-> self.children, expandCalls |-> calls]
    ELSE [children |->
             [n \in {node} \cup Range(find_children(node)) \cup DOMAIN self.children
                |-> IF n \in DOMAIN self.children THEN self.children[n]
                    ELSE find_children(n)],
          expandCalls |-> [calls EXCEPT ![node] = @ + 1]]

\* _expand(node): the children map after the call, and the number of
\* find_children calls made so far for each node
_expand(self, calls, node) ==
    IF node \in DOMAIN self.children
    THEN [children |-> self.children, expandCalls |-> calls]
    ELSE [children |-> (node :> find_children(node)) @@ self.children,
          expandCalls |-> [calls EXCEPT ![node] = @ + 1]]

\* the playout of _simulate: game is the clone being played, pol the action
\* (index into the legal actions) the agents return in each position, n the
\* number of act() calls made
RECURSIVE Playout(_, _, _)
Playout(game, pol, n) ==
    IF winner[game] # None THEN [game |-> game, actCalls |-> n]
    ELSE Playout(kids[game][pol[game]], pol, n + 1)

\* a round of the playout that leaves the game as it was
PlayoutRound_stay(game, i) == game

\* one round of the loop of _simulate: the agent's action, the i-th legal
\* one, is applied to the game
PlayoutRound(game, i) == kids[game][i]

\* _simulate with the sign of the reward turned round
_simulate_swapped(node, pol) ==
    LET end == Playout(clone(nodeState[node]), pol, 0) IN
    [reward |-> IF winner[end.game] = FIRST THEN -1 ELSE 1,
     game |-> end.game, actCalls |-> end.actCalls,
     nodeState |-> nodeState]

\* _simulate playing on node.state itself instead of a clone of it
_simulate_inplace(node, pol) ==
    LET end == Playout(nodeState[node], pol, 0) IN
    [reward |-> IF winner[end.game] = FIRST THEN 1 ELSE -1,
     game |-> end.game, actCalls |-> end.actCalls,
     nodeState |-> [nodeState EXCEPT ![node] = end.game]]

\* _simulate(node): the reward, the state the playout ended in, the number
\* of act() calls made, and the states the nodes hold afterwards
_simulate(node, pol) ==
    LET end == Playout(clone(nodeState[node]), pol, 0) IN
    [reward |-> IF winner[end.game] = FIRST THEN 1 ELSE -1,
     game |-> end.game, actCalls |-> end.actCalls,
     nodeState |-> nodeState]

\* the agents' decisions: one legal action for each position that has one
Policies ==
    {pol \in [Nodes -> 1..2] :
        \A n \in Nodes : IF kids[n] = <<>> THEN pol[n] = 1 ELSE pol[n] <= Len(kids[n])}

\* _backpropagate over path[1..i], from path[i] back to path[1]
RECURSIVE Backprop(_, _, _, _)
Backprop(self, pth, i, rew) ==
    IF i = 0 THEN self
    ELSE LET node == pth[i]
             q == IF current_player(node) = FIRST THEN self.Q[node] + rew
                  ELSE self.Q[node] - rew
         IN Backprop([self EXCEPT !.N[node] = @ + 1, !.Q[node] = q], pth, i - 1, rew)

\* _backpropagate that adds the reward to every node, whoever is to move
RECURSIVE BackpropNoFlip(_, _, _, _)
BackpropNoFlip(self, pth, i, rew) ==
    IF i = 0 THEN self
    ELSE BackpropNoFlip([self EXCEPT !.N[pth[i]] = @ + 1, !.Q[pth[i]] = @ + rew],
                        pth, i - 1, rew)

_backpropagate_noflip(self, pth, rew) == BackpropNoFlip(self, pth, Len(pth), rew)

\* _backpropagate that stops before the first node of the path
RECURSIVE BackpropAbove(_, _, _, _)
BackpropAbove(self, pth, i, rew) ==
    IF i <= 1 THEN self
    ELSE LET node == pth[i]
             q == IF current_player(node) = FIRST THEN self.Q[node] + rew
                  ELSE self.Q[node] - rew
         IN BackpropAbove([self EXCEPT !.N[node] = @ + 1, !.Q[node] = q], pth, i - 1, rew)

_backpropagate_skip_root(self, pth, rew) == BackpropAbove(self, pth, Len(pth), rew)

\* _backpropagate that starts above the last node of the path
_backpropagate_skip_leaf(self, pth, rew) == Backprop(self, pth, Len(pth) - 1, rew)

_backpropagate(self, pth, rew) == Backprop(self, pth, Len(pth), rew)

Self == [Q |-> Q, N |-> N, children |-> children]

\* score(a) > score(b) with an unseen node scored 0 instead of -inf
ScoreBetter_zero(self, a, b) ==
    IF self.N[a] = 0 THEN self.N[b] # 0 /\ 0 > self.Q[b]
    ELSE IF self.N[b] = 0 THEN self.Q[a] > 0
    ELSE self.Q[a] * self.N[b] > self.Q[b] * self.N[a]

\* score(a) > score(b) in choose: Q/N, and -inf for an unseen node
ScoreBetter(self, a, b) ==
    IF self.N[a] = 0 THEN FALSE
    ELSE IF self.N[b] = 0 THEN TRUE
    ELSE self.Q[a] * self.N[b] > self.Q[b] * self.N[a]

\* max(seq, key=score) of a non-empty list: the first entry that no entry beats
MaxByScore(self, seq) ==
    LET i == CHOOSE i \in DOMAIN seq :
                 /\ \A j \in DOMAIN seq : ~ScoreBetter(self, seq[j], seq[i])
                 /\ \A j \in 1..(i - 1) : ScoreBetter(self, seq[i], seq[j])
    IN seq[i]

\* choose without the check for a terminal node
choose_unchecked(self, node, rnd) ==
    IF node \notin DOMAIN self.children THEN [err |-> "none", node |-> rnd]
    ELSE IF self.children[node] = <<>> THEN [err |-> "ValueError", node |-> None]
    ELSE [err |-> "none", node |-> MaxByScore(self, self.children[node])]

\* choose(node), given the child find_random_child would draw
choose(self, node, rnd) ==
    IF is_terminal(node) THEN [err |-> "RuntimeError", node |-> None]
    ELSE IF node \notin DOMAIN self.children THEN [err |-> "none", node |-> rnd]
    ELSE IF self.children[node] = <<>> THEN [err |-> "ValueError", node |-> None]
    ELSE [err |-> "none", node |-> MaxByScore(self, self.children[node])]

\* ------------------------------------------------------------ rules engine
\* The rules engine (gym_locm.engine) as the specification describes it: the
\* game state, the legality rules with their error kinds, the draft and the
\* battle turns, and win detection.
ActionTypes == {"PICK", "SUMMON", "ATTACK", "USE", "PASS"}
Lanes == {LEFT, RIGHT}

GameErrors == {"FullHandError", "EmptyDeckError", "WardShieldError"}
\* the illegal-action errors with WardShieldError derived from ActionError
ActionErrors_ward ==
    {"NotEnoughManaError", "FullLaneError", "MalformedActionError",
     "WardShieldError"}

ActionErrors == {"NotEnoughManaError", "FullLaneError", "MalformedActionError"}

\* the card templates: a creature, a creature with a ward shield, an item
CardDB ==
    << [kind |-> "creature", cost |-> 1, attack |-> 1, defense |-> 1, ward |-> FALSE],
       [kind |-> "creature", cost |-> 2, attack |-> 1, defense |-> 2, ward |-> TRUE],
       [kind |-> "item", cost |-> 1, attack |-> 1, defense |-> 0, ward |-> FALSE] >>

\* the templates offered for a PICK, by the number of the draft round
DraftOffers == << <<1, 2>>, <<1, 3>> >>

CardIds == 1..(2 * DraftSize)
Seeds == {1}

RemoveAt(seq, i) == SubSeq(seq, 1, i - 1) \o SubSeq(seq, i + 1, Len(seq))
Find(seq, id) == {i \in DOMAIN seq : seq[i].id = id}
Min(a, b) == IF a <= b THEN a ELSE b

\* a deck after the shuffle the seed of the game determines
Shuffle(deck, seed) ==
    [i \in DOMAIN deck |-> deck[((i - 1 + seed) % Len(deck)) + 1]]

NewPlayer ==
    [health |-> StartHealth, mana |-> 0, base_mana |-> 0, hand |-> <<>>,
     deck |-> <<>>, lanes |-> [l \in Lanes |-> <<>>]]

\* Game(seed): draft phase, empty lanes, starting health and mana
NewGame(seed) ==
    [phase |-> DRAFT, current_player |-> FIRST, winner |-> None, turn |-> 0,
     seed |-> seed, players |-> [p \in Players |-> NewPlayer]]

\* the result of a call that changed nothing and surfaced an error kind
Fail(game, kind) == [err |-> kind, game |-> game]
Done(game) == [err |-> "none", game |-> game]

\* win detection that looks at the health of FIRST only
CheckWin_first(game) ==
    IF game.players[FIRST].health <= 0
    THEN [game EXCEPT !.winner = SECOND, !.phase = ENDED]
    ELSE game

\* win detection: a player at health <= 0 loses at once
CheckWin(game) ==
    IF game.players[FIRST].health <= 0
    THEN [game EXCEPT !.winner = opposing(FIRST), !.phase = ENDED]
    ELSE IF game.players[SECOND].health <= 0
    THEN [game EXCEPT !.winner = opposing(SECOND), !.phase = ENDED]
    ELSE game

\* a draw that puts the card into the hand whatever the size of the hand
Draw_overfull(game, p) ==
    LET pl == game.players[p] IN
    IF pl.deck = <<>> THEN [err |-> "EmptyDeckError", game |-> game]
    ELSE Done([game EXCEPT !.players[p].deck = Tail(pl.deck),
                           !.players[p].hand = Append(pl.hand, Head(pl.deck))])

\* a draw of one card by player p: from the front of the deck into the hand
Draw(game, p) ==
    LET pl == game.players[p] IN
    IF pl.deck = <<>> THEN [err |-> "EmptyDeckError", game |-> game]
    ELSE IF Len(pl.hand) >= HandCapacity
    THEN [err |-> "FullHandError",
          game |-> [game EXCEPT !.players[p].deck = Tail(pl.deck)]]
    ELSE Done([game EXCEPT !.players[p].deck = Tail(pl.deck),
                           !.players[p].hand = Append(pl.hand, Head(pl.deck))])

\* the start of a turn with the base mana incremented past the cap
NewTurn_uncapped(game, p) ==
    LET base == game.players[p].base_mana + 1
    IN Draw([game EXCEPT !.players[p].base_mana = base,
                         !.players[p].mana = base], p)

\* the start of a turn of player p: base mana up to the cap, mana refilled,
\* one card drawn
NewTurn(game, p) ==
    LET base == Min(game.players[p].base_mana + 1, ManaCap)
    IN Draw([game EXCEPT !.players[p].base_mana = base,
                         !.players[p].mana = base], p)

\* the end of the draft: decks shuffled, FIRST to move; the opening hand is
\* the card the start of the first turn draws
StartBattle(game) ==
    LET s == [game EXCEPT
                !.phase = BATTLE, !.current_player = FIRST,
                !.players = [p \in Players |->
                   [game.players[p] EXCEPT
                      !.deck = Shuffle(game.players[p].deck, game.seed)]]]
    IN NewTurn(s, FIRST)

Offered(game) ==
    DraftOffers[(Len(game.players[game.current_player].deck) % Len(DraftOffers)) + 1]

\* PICK that starts the battle as soon as one deck has reached the draft size
DoPick_early(game, action) ==
    LET p == game.current_player
        offer == Offered(game)
        picked == Len(game.players[FIRST].deck) + Len(game.players[SECOND].deck)
    IN IF action.origin \notin DOMAIN offer \/ action.target # None
       THEN Fail(game, "MalformedActionError")
       ELSE LET card == [id |-> picked + 1, tpl |-> offer[action.origin]]
                g == [game EXCEPT
                        !.players[p].deck = Append(game.players[p].deck, card),
                        !.current_player = opposing(p)]
            IN IF \E q \in Players : Len(g.players[q].deck) >= DraftSize
               THEN StartBattle(g)
               ELSE Done(g)

\* PICK: origin is the index of one of the offered choices
DoPick(game, action) ==
    LET p == game.current_player
        offer == Offered(game)
        picked == Len(game.players[FIRST].deck) + Len(game.players[SECOND].deck)
    IN IF action.origin \notin DOMAIN offer \/ action.target # None
       THEN Fail(game, "MalformedActionError")
       ELSE LET card == [id |-> picked + 1, tpl |-> offer[action.origin]]
                g == [game EXCEPT
                        !.players[p].deck = Append(game.players[p].deck, card),
                        !.current_player = opposing(p)]
            IN IF \A q \in Players : Len(g.players[q].deck) >= DraftSize
               THEN StartBattle(g)
               ELSE Done(g)

\* SUMMON: origin is the id of a creature card in hand, target a lane
DoSummon(game, action) ==
    LET p == game.current_player
        pl == game.players[p]
        at == Find(pl.hand, action.origin)
    IN IF at = {} \/ action.target \notin Lanes
       THEN Fail(game, "MalformedActionError")
       ELSE LET i == CHOOSE i \in at : TRUE
                t == CardDB[pl.hand[i].tpl]
            IN IF t.kind # "creature" THEN Fail(game, "MalformedActionError")
               ELSE IF t.cost > pl.mana THEN Fail(game, "NotEnoughManaError")
               ELSE IF Len(pl.lanes[action.target]) >= LaneCapacity
               THEN Fail(game, "FullLaneError")
               ELSE Done([game EXCEPT
                      !.players[p].mana = pl.mana - t.cost,
                      !.players[p].hand = RemoveAt(pl.hand, i),
                      !.players[p].lanes[action.target] =
                          Append(pl.lanes[action.target],
                                 [id |-> pl.hand[i].id, tpl |-> pl.hand[i].tpl,
                                  attack |-> t.attack, defense |-> t.defense,
                                  ward |-> t.ward])])

\* the places <<lane, index>> of the creature with this id on p's board
Where(game, p, id) ==
    {w \in Lanes \X (1..LaneCapacity) :
        /\ w[2] <= Len(game.players[p].lanes[w[1]])
        /\ game.players[p].lanes[w[1]][w[2]].id = id}

\* damage with a ward shield that absorbs the damage and stays
Damage_kept(game, p, target, amount) ==
    LET q == opposing(p) IN
    IF target = None
    THEN Done([game EXCEPT !.players[q].health = game.players[q].health - amount])
    ELSE LET w == CHOOSE w \in Where(game, q, target) : TRUE
             c == game.players[q].lanes[w[1]][w[2]]
         IN IF amount <= 0 THEN Done(game)
            ELSE IF c.ward THEN [err |-> "WardShieldError", game |-> game]
            ELSE IF c.defense - amount <= 0
            THEN Done([game EXCEPT !.players[q].lanes[w[1]] =
                                       RemoveAt(game.players[q].lanes[w[1]], w[2])])
            ELSE Done([game EXCEPT !.players[q].lanes[w[1]][w[2]].defense =
                                       c.defense - amount])

\* damage dealt by player p to a target of the opponent: the player (None)
\* or the creature with the id; a ward shield absorbs it and is cleared
Damage(game, p, target, amount) ==
    LET q == opposing(p) IN
    IF target = None
    THEN Done([game EXCEPT !.players[q].health = game.players[q].health - amount])
    ELSE LET w == CHOOSE w \in Where(game, q, target) : TRUE
             c == game.players[q].lanes[w[1]][w[2]]
         IN IF amount <= 0 THEN Done(game)
            ELSE IF c.ward
            THEN [err |-> "WardShieldError",
                  game |-> [game EXCEPT !.players[q].lanes[w[1]][w[2]].ward = FALSE]]
            ELSE IF c.defense - amount <= 0
            THEN Done([game EXCEPT !.players[q].lanes[w[1]] =
                                       RemoveAt(game.players[q].lanes[w[1]], w[2])])
            ELSE Done([game EXCEPT !.players[q].lanes[w[1]][w[2]].defense =
                                       c.defense - amount])

\* ATTACK: origin is the id of an own creature, target an enemy creature or
\* the enemy player
DoAttack(game, action) ==
    LET p == game.current_player
        from == Where(game, p, action.origin)
    IN IF from = {} \/ (action.target # None
                        /\ Where(game, opposing(p), action.target) = {})
       THEN Fail(game, "MalformedActionError")
       ELSE LET w == CHOOSE w \in from : TRUE
            IN Damage(game, p, action.target,
                      game.players[p].lanes[w[1]][w[2]].attack)

\* USE: origin is the id of an item card in hand, target an enemy creature or
\* the enemy player
DoUse(game, action) ==
    LET p == game.current_player
        pl == game.players[p]
        at == Find(pl.hand, action.origin)
    IN IF at = {} \/ (action.target # None
                      /\ Where(game, opposing(p), action.target) = {})
       THEN Fail(game, "MalformedActionError")
       ELSE LET i == CHOOSE i \in at : TRUE
                t == CardDB[pl.hand[i].tpl]
                hit == Damage(game, p, action.target, t.attack)
            IN IF t.kind # "item" THEN Fail(game, "MalformedActionError")
               ELSE IF t.cost > pl.mana THEN Fail(game, "NotEnoughManaError")
               ELSE IF hit.err = "WardShieldError" THEN hit
               ELSE Done([hit.game EXCEPT
                            !.players[p].mana = pl.mana - t.cost,
                            !.players[p].hand = RemoveAt(pl.hand, i)])

\* PASS: the turn ends, the other player's turn begins
DoPass(game, action) ==
    LET q == opposing(game.current_player) IN
    IF action.origin # None \/ action.target # None
    THEN Fail(game, "MalformedActionError")
    ELSE NewTurn([game EXCEPT !.current_player = q, !.turn = game.turn + 1], q)

Dispatch(game, action) ==
    IF game.phase = ENDED THEN Fail(game, "MalformedActionError")
    ELSE IF game.phase = DRAFT
    THEN IF action.type = "PICK" THEN DoPick(game, action)
         ELSE Fail(game, "MalformedActionError")
    ELSE IF action.type = "SUMMON" THEN DoSummon(game, action)
    ELSE IF action.type = "ATTACK" THEN DoAttack(game, action)
    ELSE IF action.type = "USE" THEN DoUse(game, action)
    ELSE IF action.type = "PASS" THEN DoPass(game, action)
    ELSE Fail(game, "MalformedActionError")

\* game.act(action): the error kind the call surfaces ("none" if none) and
\* the state after it; win detection follows every action
game_act(game, action) ==
    LET r == Dispatch(game, action)
    IN [err |-> r.err, game |-> CheckWin(r.game)]

\* the actions: PICK carries an index into the offered choices, SUMMON the id
\* of a card and a lane, ATTACK and USE the id of a creature or card and an
\* optional target id (None stands for the player), PASS no operands
Actions ==
    [type : {"PICK"}, origin : CardIds, target : {None}]
    \cup [type : {"SUMMON"}, origin : CardIds, target : Lanes]
    \cup [type : {"ATTACK", "USE"}, origin : CardIds, target : CardIds \cup {None}]
    \cup [type : {"PASS"}, origin : {None}, target : {None}]

\* legalActions(state): the actions the engine does not reject
legalActions(game) ==
    {a \in Actions : game_act(game, a).err \notin ActionErrors}

\* the loop condition testing the phase for BATTLE instead of the winner
LoopRuns_battle(game) == game.phase = BATTLE

\* the condition of the game loops: while game.winner is None
LoopRuns(game) == game.winner = None

\* ---------------------------------------------------------------- actions
\* the worker processes a Pool can hold
Workers == 1..MaxWorkers

\* the module-level tally and lock of runner.py, no run under way
NoRun ==
    /\ wins_by_p0 = <<0, 0>>
    /\ lock = None
    /\ n_games = 0
    /\ processes = 1
    /\ handed = 0
    /\ wpc = [w \in Workers |-> "idle"]
    /\ wgame = [w \in Workers |-> None]
    /\ tmp = [w \in Workers |-> 0]
    /\ seen = [w \in Workers |-> <<>>]
    /\ written = <<>>
    /\ returned = [games |-> 0, first |-> 0]
    /\ runpc = "idle"
    /\ final = <<>>

\* train_and_eval has not been called
NoTraining ==
    /\ given = [n_steps |-> 2, nminibatches |-> 2]
    /\ params = given
    /\ pcTrain = "idle"

Init ==
    /\ \E k \in KidMaps(0) :
         /\ Canonical(k)
         /\ kids = k
         /\ \E pl \in [ReachFrom(k, Root) -> Players] :
              player = [n \in Nodes |-> IF n \in DOMAIN pl THEN pl[n] ELSE FIRST]
         /\ \E w \in [{n \in ReachFrom(k, Root) : k[n] = <<>>} -> Players] :
              winner = [n \in Nodes |->
                          IF n \in DOMAIN w THEN w[n]
                          ELSE IF k[n] = <<>> THEN FIRST ELSE None]
    /\ nodeState = [n \in Nodes |-> n]
    /\ Q = [n \in Nodes |-> 0]
    /\ N = [n \in Nodes |-> 0]
    /\ children = <<>>
    /\ rollouts = 0
    /\ op = "init"
    /\ path = <<>>
    /\ uctAt = <<>>
    /\ reward = 0
    /\ actCalls = 0
    /\ simEnd = None
    /\ expandCalls = [n \in Nodes |-> 0]
    /\ err = "none"
    /\ chooseArg = None
    /\ chosen = None
    /\ pc = "idle"
    /\ cur = None
    /\ gameState = NewGame(0)
    /\ lastErr = "none"
    /\ asked = <<>>
    /\ lastAct = <<>>
    /\ NoTraining
    /\ NoRun

\* do_rollout(node) on the instance self, the agents playing pol in the
\* simulation: the exception raised ("none" if it returned), the tables and
\* the node states after the call, and what the call did on the way
Rollout(self, sel, pol, calls) ==
    IF sel.err # "none"
    THEN [err |-> sel.err, path |-> sel.path, uctAt |-> sel.uctAt,
          Q |-> self.Q, N |-> self.N, children |-> self.children,
          nodeState |-> nodeState, reward |-> 0, actCalls |-> 0, game |-> None,
          expandCalls |-> calls]
    ELSE LET leaf == Last(sel.path)
             exp == _expand(self, calls, leaf)
             expanded == [self EXCEPT !.children = exp.children]
             sim == _simulate(leaf, pol)
             after == _backpropagate(expanded, sel.path, sim.reward)
         IN [err |-> "none", path |-> sel.path, uctAt |-> sel.uctAt,
             Q |-> after.Q, N |-> after.N, children |-> after.children,
             nodeState |-> sim.nodeState, reward |-> sim.reward,
             actCalls |-> sim.actCalls, game |-> sim.game,
             expandCalls |-> exp.expandCalls]

do_rollout(self, node, pol, calls) == Rollout(self, _select(self, node), pol, calls)

DoRollout(pol) ==
    /\ pc = "idle"
    /\ rollouts < MaxRollouts
    /\ \E r \in {do_rollout(Self, Root, pol, expandCalls)} :
         /\ err' = r.err
         /\ path' = r.path
         /\ uctAt' = r.uctAt
         /\ Q' = r.Q
         /\ N' = r.N
         /\ children' = r.children
         /\ nodeState' = r.nodeState
         /\ reward' = r.reward
         /\ actCalls' = r.actCalls
         /\ simEnd' = r.game
         /\ expandCalls' = r.expandCalls
    /\ rollouts' = rollouts + 1
    /\ op' = "do_rollout"
    /\ chooseArg' = None
    /\ chosen' = None
    /\ UNCHANGED <<kids, player, winner, pc, cur, gameVars, trainVars, tallyVars>>

\* choose(node); rnd is the child find_random_child would return
Choose(node, rnd) ==
    /\ pc = "idle"
    /\ rnd \in Range(find_children(node)) \cup {None}
    /\ (rnd = None) = (find_children(node) = <<>>)
    /\ \E r \in {choose(Self, node, rnd)} :
       /\ op' = "choose"
       /\ chooseArg' = node
       /\ chosen' = r.node
       /\ err' = r.err
    /\ UNCHANGED <<kids, player, winner, nodeState, Q, N, children, rollouts, path,
                   uctAt, reward, actCalls, simEnd, expandCalls, pc, cur,
                   gameVars, trainVars, tallyVars>>

Next ==
    \/ \E pol \in Policies : DoRollout(pol)
    \/ \E node \in Nodes : \E rnd \in Nodes \cup {None} : Choose(node, rnd)

Spec == Init /\ [][Next]_vars

\* ------------------------------------------------- do_rollout step by step
\* do_rollout(root) taken one round of its loops at a time
StartRollout ==
    /\ pc = "idle"
    /\ rollouts < MaxRollouts
    /\ pc' = "select"
    /\ cur' = Root
    /\ path' = <<>>
    /\ uctAt' = <<>>
    /\ err' = "none"
    /\ UNCHANGED <<kids, player, winner, nodeState, Q, N, children, rollouts, op,
                   reward, actCalls, simEnd, expandCalls, chooseArg, chosen,
                   gameVars, trainVars, tallyVars>>

\* one round of the loop of _select
SelectStep ==
    /\ pc = "select"
    /\ \E r \in {SelectRound(Self, cur, path, uctAt)} :
         /\ path' = r.path
         /\ uctAt' = r.uctAt
         /\ cur' = r.node
         /\ err' = r.err
         /\ pc' = IF r.err # "none" THEN "idle"
                  ELSE IF r.done THEN "expand" ELSE "select"
         /\ rollouts' = IF r.err # "none" THEN rollouts + 1 ELSE rollouts
         /\ op' = IF r.err # "none" THEN "do_rollout" ELSE op
    /\ UNCHANGED <<kids, player, winner, nodeState, Q, N, children, reward,
                   actCalls, simEnd, expandCalls, chooseArg, chosen, gameVars, trainVars, tallyVars>>

\* _expand(leaf), and the clone of the leaf's state _simulate begins with
ExpandStep ==
    /\ pc = "expand"
    /\ \E r \in {_expand(Self, expandCalls, Last(path))} :
         /\ children' = r.children
         /\ expandCalls' = r.expandCalls
    /\ simEnd' = clone(nodeState[Last(path)])
    /\ actCalls' = 0
    /\ pc' = "simulate"
    /\ UNCHANGED <<kids, player, winner, nodeState, Q, N, rollouts, op, path,
                   uctAt, reward, err, chooseArg, chosen, cur, gameVars, trainVars, tallyVars>>

\* one round of the loop of _simulate: the agent returns its i-th legal action
PlayoutStep(i) ==
    /\ pc = "simulate"
    /\ winner[simEnd] = None
    /\ i \in DOMAIN kids[simEnd]
    /\ actCalls <= MaxNode
    /\ simEnd' = PlayoutRound(simEnd, i)
    /\ actCalls' = actCalls + 1
    /\ UNCHANGED <<kids, player, winner, nodeState, Q, N, children, rollouts, op,
                   path, uctAt, reward, expandCalls, err, chooseArg, chosen, pc,
                   cur, gameVars, trainVars, tallyVars>>

\* the loop of _simulate has ended: the reward is returned
SimulateReturn ==
    /\ pc = "simulate"
    /\ winner[simEnd] # None
    /\ reward' = IF winner[simEnd] = FIRST THEN 1 ELSE -1
    /\ pc' = "backpropagate"
    /\ UNCHANGED <<kids, player, winner, nodeState, Q, N, children, rollouts, op,
                   path, uctAt, actCalls, simEnd, expandCalls, err, chooseArg,
                   chosen, cur, gameVars, trainVars, tallyVars>>

\* _backpropagate(path, reward), and do_rollout returns
BackpropStep ==
    /\ pc = "backpropagate"
    /\ \E r \in {_backpropagate(Self, path, reward)} :
         /\ Q' = r.Q
         /\ N' = r.N
    /\ rollouts' = rollouts + 1
    /\ op' = "do_rollout"
    /\ chooseArg' = None
    /\ chosen' = None
    /\ pc' = "idle"
    /\ UNCHANGED <<kids, player, winner, nodeState, children, path, uctAt, reward,
                   actCalls, simEnd, expandCalls, err, cur, gameVars, trainVars, tallyVars>>

\* the steps of a do_rollout that has been called
RolloutSteps ==
    \/ SelectStep
    \/ ExpandStep
    \/ \E i \in 1..2 : PlayoutStep(i)
    \/ SimulateReturn
    \/ BackpropStep

NextSteps == StartRollout \/ RolloutSteps

\* do_rollout runs to completion: a call that can take a step takes one
SpecSteps == Init /\ [][NextSteps]_vars /\ WF_vars(RolloutSteps)

\* ------------------------------------------------------- games being played
\* the tables of a search that is not running
NoSearch ==
    /\ kids = [n \in Nodes |-> <<>>]
    /\ player = [n \in Nodes |-> FIRST]
    /\ winner = [n \in Nodes |-> FIRST]
    /\ nodeState = [n \in Nodes |-> n]
    /\ Q = [n \in Nodes |-> 0]
    /\ N = [n \in Nodes |-> 0]
    /\ children = <<>>
    /\ rollouts = 0
    /\ op = "init"
    /\ path = <<>>
    /\ uctAt = <<>>
    /\ reward = 0
    /\ actCalls = 0
    /\ simEnd = None
    /\ expandCalls = [n \in Nodes |-> 0]
    /\ err = "none"
    /\ chooseArg = None
    /\ chosen = None
    /\ pc = "idle"
    /\ cur = None

\* game = engine.Game(seed=...)
InitGame ==
    /\ \E seed \in Seeds : gameState = NewGame(seed)
    /\ lastErr = "none"
    /\ asked = <<>>
    /\ lastAct = <<>>
    /\ NoSearch
    /\ NoTraining
    /\ NoRun

\* the bot of evaluate taken from battle_bots whatever the phase
Bot_battle(g) == [role |-> "battle", id |-> g.current_player]

\* the bot evaluate asks for the next action: the current player's draft bot
\* in the draft, the current player's battle bot otherwise
Bot(g) ==
    IF g.phase = DRAFT THEN [role |-> "draft", id |-> g.current_player]
    ELSE [role |-> "battle", id |-> g.current_player]

\* the agent _simulate asks for the next action: self.agents[current player]
Agent(g) == [role |-> "agent", id |-> g.current_player]

\* one round of a game loop, choice being the action the one asked returns:
\* the act calls made (who was asked, on which state), the actions applied
\* and what game.act made of it
Round(g, who, choice) ==
    [calls |-> << [who |-> who, state |-> g] >>,
     actions |-> <<choice>>,
     result |-> game_act(g, choice)]

evaluate_round(g, choice) == Round(g, Bot(g), choice)
simulate_round(g, choice) == Round(g, Agent(g), choice)

\* no game runs longer than MaxTurns turns
InTime(g, action) == action.type = "PASS" => g.turn < MaxTurns

\* one round of the loop of evaluate: the bot's action is applied
EvaluateStep(action) ==
    /\ LoopRuns(gameState)
    /\ action \in legalActions(gameState)
    /\ InTime(gameState, action)
    /\ \E r \in {evaluate_round(gameState, action)} :
         /\ gameState' = r.result.game
         /\ lastErr' = r.result.err
         /\ asked' = r.calls
         /\ lastAct' = r.actions
    /\ UNCHANGED <<searchVars, trainVars, tallyVars>>

\* one round of the loop of _simulate, played on a game of the engine
SimulateStep(action) ==
    /\ LoopRuns(gameState)
    /\ action \in legalActions(gameState)
    /\ InTime(gameState, action)
    /\ \E r \in {simulate_round(gameState, action)} :
         /\ gameState' = r.result.game
         /\ lastErr' = r.result.err
         /\ asked' = r.calls
         /\ lastAct' = r.actions
    /\ UNCHANGED <<searchVars, trainVars, tallyVars>>

\* game.act(action) called with any action, in any state
Act(action) ==
    /\ InTime(gameState, action)
    /\ \E r \in {game_act(gameState, action)} :
         /\ gameState' = r.game
         /\ lastErr' = r.err
    /\ asked' = <<>>
    /\ lastAct' = <<>>
    /\ UNCHANGED <<searchVars, trainVars, tallyVars>>

NextGame ==
    \/ \E action \in Actions : EvaluateStep(action)
    \/ \E action \in Actions : SimulateStep(action)
    \/ \E action \in Actions : Act(action)

SpecGame == InitGame /\ [][NextGame]_vars


\* ------------------------------------- the hyperparameters of train_and_eval
\* The adjustment of n_steps and nminibatches at the start of train_and_eval
\* (util/interleaved-self-play.py), taken one statement at a time.  The
\* hyperparameters arrive as numbers that need not be integers; a number x
\* is held as the integer 2x, so the given numbers are the multiples of 1/2.

\* no game of the rules engine is played
NoGame ==
    /\ gameState = NewGame(0)
    /\ lastErr = "none"
    /\ asked = <<>>
    /\ lastAct = <<>>

\* int(x) of a number x held as h = 2x: truncation towards zero
int(h) == IF h >= 0 THEN h \div 2 ELSE -((-h) \div 2)

\* params['n_steps'] = int(...); params['nminibatches'] = int(...)
ensure_integer(p) ==
    [n_steps |-> int(p.n_steps), nminibatches |-> int(p.nminibatches)]

\* params['nminibatches'] = min(params['nminibatches'], params['n_steps'])
ensure_at_most(p) ==
    [p EXCEPT !.nminibatches = IF p.n_steps < @ THEN p.n_steps ELSE @]

\* the test of the while loop with its operands exchanged
while_test_swapped(p) ==
    IF p.n_steps = 0 THEN "ZeroDivisionError"
    ELSE IF p.nminibatches % p.n_steps # 0 THEN "run"
    ELSE "exit"

\* params['n_steps'] % params['nminibatches'] != 0, for numbers that are not
\* negative: the loop runs, is left, or the modulo raises
while_test(p) ==
    IF p.nminibatches = 0 THEN "ZeroDivisionError"
    ELSE IF p.n_steps % p.nminibatches # 0 THEN "run"
    ELSE "exit"

\* train_and_eval(params) is called
InitTrain ==
    /\ given \in [n_steps : 0..(2 * MaxSteps + 1), nminibatches : 0..(2 * MaxSteps + 1)]
    /\ params = given
    /\ pcTrain = "int"
    /\ NoSearch
    /\ NoGame
    /\ NoRun

\* ensure integer hyperparams
EnsureInteger ==
    /\ pcTrain = "int"
    /\ params' = ensure_integer(params)
    /\ pcTrain' = "min"
    /\ UNCHANGED <<searchVars, gameVars, tallyVars, given>>

\* ensure nminibatches <= n_steps
EnsureAtMost ==
    /\ pcTrain = "min"
    /\ params' = ensure_at_most(params)
    /\ pcTrain' = "while"
    /\ UNCHANGED <<searchVars, gameVars, tallyVars, given>>

\* a round of the while loop: params['nminibatches'] -= 1
WhileBody ==
    /\ pcTrain = "while"
    /\ while_test(params) = "run"
    /\ params' = [params EXCEPT !.nminibatches = @ - 1]
    /\ UNCHANGED <<searchVars, gameVars, tallyVars, given, pcTrain>>

\* the loop is left and the environments are built
WhileExit ==
    /\ pcTrain = "while"
    /\ while_test(params) = "exit"
    /\ pcTrain' = "build"
    /\ UNCHANGED <<searchVars, gameVars, tallyVars, given, params>>

\* the modulo by zero raises
WhileRaise ==
    /\ pcTrain = "while"
    /\ while_test(params) = "ZeroDivisionError"
    /\ pcTrain' = "ZeroDivisionError"
    /\ UNCHANGED <<searchVars, gameVars, tallyVars, given, params>>

NextTrain ==
    \/ EnsureInteger
    \/ EnsureAtMost
    \/ WhileBody
    \/ WhileExit
    \/ WhileRaise

\* train_and_eval is sequential code: a statement that can run does run
SpecTrain == InitTrain /\ [][NextTrain]_vars /\ WF_vars(NextTrain)

\* ------------------------------------------------- the runner's shared tally
\* run() of toolbox/runner.py hands the games to the worker processes of a
\* Pool; every evaluate call plays its game and then, holding the lock, adds
\* to the two entries of the shared list and reads them.  An entry of the
\* list is fetched and stored by separate requests to the manager process,
\* so x[i] += d is a fetch followed by a store, and the list is read entry
\* by entry.

\* the lock taken whether or not another worker holds it
CanAcquire_always(holder) == TRUE

\* lock.acquire() returns only when no worker holds the lock
CanAcquire(holder) == holder = None

\* 1 if game.winner == engine.PlayerOrder.FIRST else 0
WinOfFirst(w) == IF w = FIRST THEN 1 ELSE 0

\* run() has parsed its arguments and calls pool.map
InitRun ==
    /\ wins_by_p0 = <<0, 0>>
    /\ lock = None
    /\ n_games \in 0..MaxGames
    /\ processes \in 1..MaxWorkers
    /\ handed = 0
    /\ wpc = [w \in Workers |-> "idle"]
    /\ wgame = [w \in Workers |-> None]
    /\ tmp = [w \in Workers |-> 0]
    /\ seen = [w \in Workers |-> <<>>]
    /\ written = <<>>
    /\ returned = [games |-> 0, first |-> 0]
    /\ runpc = "map"
    /\ final = <<>>
    /\ NoSearch
    /\ NoGame
    /\ NoTraining

\* pool.map hands the next game to a worker that is free
TakeGame(w) ==
    /\ runpc = "map"
    /\ w <= processes
    /\ wpc[w] = "idle"
    /\ handed < n_games
    /\ handed' = handed + 1
    /\ wpc' = [wpc EXCEPT ![w] = "play"]
    /\ UNCHANGED <<wins_by_p0, lock, n_games, processes, wgame, tmp, seen,
                   written, returned, runpc, final>>
    /\ UNCHANGED <<searchVars, gameVars, trainVars>>

\* the game loop of evaluate has ended with game.winner = win
PlayGame(w, win) ==
    /\ wpc[w] = "play"
    /\ wgame' = [wgame EXCEPT ![w] = win]
    /\ wpc' = [wpc EXCEPT ![w] = "acquire"]
    /\ UNCHANGED <<wins_by_p0, lock, n_games, processes, handed, tmp, seen,
                   written, returned, runpc, final>>
    /\ UNCHANGED <<searchVars, gameVars, trainVars>>

\* with lock: the lock is acquired
Acquire(w) ==
    /\ wpc[w] = "acquire"
    /\ CanAcquire(lock)
    /\ lock' = w
    /\ wpc' = [wpc EXCEPT ![w] = "fetch_wins"]
    /\ UNCHANGED <<wins_by_p0, n_games, processes, handed, wgame, tmp, seen,
                   written, returned, runpc, final>>
    /\ UNCHANGED <<searchVars, gameVars, trainVars>>

\* wins_by_p0[0] += ...: the entry is fetched
FetchWins(w) ==
    /\ wpc[w] = "fetch_wins"
    /\ tmp' = [tmp EXCEPT ![w] = wins_by_p0[1]]
    /\ wpc' = [wpc EXCEPT ![w] = "store_wins"]
    /\ UNCHANGED <<wins_by_p0, lock, n_games, processes, handed, wgame, seen,
                   written, returned, runpc, final>>
    /\ UNCHANGED <<searchVars, gameVars, trainVars>>

\* wins_by_p0[0] += ...: the sum is stored
StoreWins(w) ==
    /\ wpc[w] = "store_wins"
    /\ wins_by_p0' = [wins_by_p0 EXCEPT ![1] = tmp[w] + WinOfFirst(wgame[w])]
    /\ wpc' = [wpc EXCEPT ![w] = "fetch_games"]
    /\ UNCHANGED <<lock, n_games, processes, handed, wgame, tmp, seen, written,
                   returned, runpc, final>>
    /\ UNCHANGED <<searchVars, gameVars, trainVars>>

\* wins_by_p0[1] += 1: the entry is fetched
FetchGames(w) ==
    /\ wpc[w] = "fetch_games"
    /\ tmp' = [tmp EXCEPT ![w] = wins_by_p0[2]]
    /\ wpc' = [wpc EXCEPT ![w] = "store_games"]
    /\ UNCHANGED <<wins_by_p0, lock, n_games, processes, handed, wgame, seen,
                   written, returned, runpc, final>>
    /\ UNCHANGED <<searchVars, gameVars, trainVars>>

\* wins_by_p0[1] += 1: the sum is stored; both entries have been written
StoreGames(w) ==
    /\ wpc[w] = "store_games"
    /\ wins_by_p0' = [wins_by_p0 EXCEPT ![2] = tmp[w] + 1]
    /\ written' = Append(written, wins_by_p0')
    /\ wpc' = [wpc EXCEPT ![w] = "read_wins"]
    /\ UNCHANGED <<lock, n_games, processes, handed, wgame, tmp, seen, returned,
                   runpc, final>>
    /\ UNCHANGED <<searchVars, gameVars, trainVars>>

\* wins, games = wins_by_p0: the first entry is read
ReadWins(w) ==
    /\ wpc[w] = "read_wins"
    /\ seen' = [seen EXCEPT ![w] = <<wins_by_p0[1]>>]
    /\ wpc' = [wpc EXCEPT ![w] = "read_games"]
    /\ UNCHANGED <<wins_by_p0, lock, n_games, processes, handed, wgame, tmp,
                   written, returned, runpc, final>>
    /\ UNCHANGED <<searchVars, gameVars, trainVars>>

\* wins, games = wins_by_p0: the second entry is read
ReadGames(w) ==
    /\ wpc[w] = "read_games"
    /\ seen' = [seen EXCEPT ![w] = Append(@, wins_by_p0[2])]
    /\ wpc' = [wpc EXCEPT ![w] = "release"]
    /\ UNCHANGED <<wins_by_p0, lock, n_games, processes, handed, wgame, tmp,
                   written, returned, runpc, final>>
    /\ UNCHANGED <<searchVars, gameVars, trainVars>>

\* the with block is left: the lock is released
Release(w) ==
    /\ wpc[w] = "release"
    /\ lock' = None
    /\ wpc' = [wpc EXCEPT ![w] = "print"]
    /\ UNCHANGED <<wins_by_p0, n_games, processes, handed, wgame, tmp, seen,
                   written, returned, runpc, final>>
    /\ UNCHANGED <<searchVars, gameVars, trainVars>>

\* the progress line is printed and evaluate returns game.winner
Return(w) ==
    /\ wpc[w] = "print"
    /\ returned' = [games |-> returned.games + 1,
                    first |-> returned.first + WinOfFirst(wgame[w])]
    /\ wpc' = [wpc EXCEPT ![w] = "idle"]
    /\ wgame' = [wgame EXCEPT ![w] = None]
    /\ tmp' = [tmp EXCEPT ![w] = 0]
    /\ seen' = [seen EXCEPT ![w] = <<>>]
    /\ UNCHANGED <<wins_by_p0, lock, n_games, processes, handed, written, runpc,
                   final>>
    /\ UNCHANGED <<searchVars, gameVars, trainVars>>

\* pool.map has returned (every evaluate call has): wins, games = wins_by_p0
MapReturns ==
    /\ runpc = "map"
    /\ handed = n_games
    /\ \A w \in Workers : wpc[w] = "idle"
    /\ final' = wins_by_p0
    /\ runpc' = "done"
    /\ UNCHANGED <<wins_by_p0, lock, n_games, processes, handed, wpc, wgame, tmp,
                   seen, written, returned>>
    /\ UNCHANGED <<searchVars, gameVars, trainVars>>

\* a step of the evaluate call of worker w
Evaluate(w) ==
    \/ \E win \in Players : PlayGame(w, win)
    \/ Acquire(w)
    \/ FetchWins(w)
    \/ StoreWins(w)
    \/ FetchGames(w)
    \/ StoreGames(w)
    \/ ReadWins(w)
    \/ ReadGames(w)
    \/ Release(w)
    \/ Return(w)

NextRun ==
    \/ \E w \in Workers : TakeGame(w)
    \/ \E w \in Workers : Evaluate(w)
    \/ MapReturns

\* the workers run in any interleaving
SpecRun == InitRun /\ [][NextRun]_vars

\* ================================================================ claims
RECURSIVE SumN(_, _)
SumN(seq, i) == IF i = 0 THEN 0 ELSE N[seq[i]] + SumN(seq, i - 1)

RECURSIVE SumNOver(_)
SumNOver(S) ==
    IF S = {} THEN 0
    ELSE LET x == CHOOSE x \in S : TRUE IN N[x] + SumNOver(S \ {x})

\* no child of the root can be reached from another child of the root
RootChildrenIndependent ==
    \A a, b \in Range(kids[Root]) : a # b => b \notin ReachFrom(kids, a)

\* C1 (as stated): after k do_rollout calls from the root N[root] = k, and
\* the visit counts of the entries of children[root], summed entry by entry,
\* do not exceed N[root].
C1_Original ==
    /\ N[Root] = rollouts
    /\ Root \in DOMAIN children =>
         SumN(children[Root], Len(children[Root])) <= N[Root]

\* C1 (amended): after k do_rollout calls from the root N[root] = k, and the
\* visit counts of the distinct nodes among children[root] sum to at most
\* N[root] whenever no child of the root is reachable from another child.
C1_Amended ==
    /\ N[Root] = rollouts
    /\ (Root \in DOMAIN children /\ RootChildrenIndependent) =>
         SumNOver(Range(children[Root])) <= N[Root]

\* two actions of the root lead to the same child, visited twice in three
\* or more rollouts
C1_Witness ==
    /\ rollouts >= 3
    /\ Root \in DOMAIN children
    /\ Len(children[Root]) = 2
    /\ children[Root][1] = children[Root][2]
    /\ N[children[Root][1]] >= 2
    /\ RootChildrenIndependent

\* C2: backpropagation of a reward r along a path adds 1 to the visit count
\* of every node of the path and r (the node's current player is FIRST) or -r
\* (otherwise) to its cumulative reward, and leaves every other node's visit
\* count and cumulative reward as they were.
C2_Backprop ==
    [][(rollouts' = rollouts + 1 /\ err' = "none") =>
         \A n \in Nodes :
            IF n \in Range(path')
            THEN /\ N'[n] = N[n] + 1
                 /\ Q'[n] = Q[n] + (IF player[nodeState[n]] = FIRST
                                    THEN reward' ELSE 0 - reward')
            ELSE /\ N'[n] = N[n]
                 /\ Q'[n] = Q[n]]_vars

\* a reward was sent up a path holding a node of each player
C2_Witness ==
    /\ op = "do_rollout"
    /\ err = "none"
    /\ Len(path) >= 2
    /\ \E a, b \in Range(path) : player[a] = FIRST /\ player[b] = SECOND
    /\ \E n \in Nodes : n \notin Range(path) /\ N[n] > 0

\* the path p, with UCT steps taken at the nodes u, is one _select may
\* return from the root in the current state of the tables
SelectionOK(p, u) ==
    /\ Len(p) >= 1
    /\ p[1] = Root
    /\ Range(u) \subseteq {p[i] : i \in 1..(Len(p) - 1)}
    /\ \A i \in 1..(Len(p) - 1) :
          /\ p[i] \in DOMAIN children
          /\ p[i + 1] \in Range(children[p[i]])
          /\ IF \A c \in Range(children[p[i]]) : c \in DOMAIN children
             THEN /\ p[i] \in Range(u)
                  /\ \A c \in Range(children[p[i]]) :
                        uct(Self, LnTable[N[p[i]]], c)
                           <= uct(Self, LnTable[N[p[i]]], p[i + 1])
             ELSE /\ p[i] \notin Range(u)
                  /\ i = Len(p) - 1
                  /\ p[i + 1] \notin DOMAIN children
    /\ is_terminal(Last(p)) \/ Last(p) \notin DOMAIN children

\* C3: selection returns a path that starts at the root, follows entries of
\* the children map through expanded nodes and ends in a leaf that is
\* terminal or not yet a key of the children map; it moves to the child of
\* maximal UCT score only at nodes all of whose children are keys, and stops
\* at an unexpanded child otherwise.
C3_Selection ==
    [][(rollouts' = rollouts + 1 /\ err' = "none") => SelectionOK(path', uctAt')]_vars

\* the walk took a UCT step and then stopped at an unexpanded child
C3_Witness ==
    /\ op = "do_rollout"
    /\ Len(uctAt) >= 1
    /\ Len(path) = Len(uctAt) + 2
    /\ expandCalls[Last(path)] = 1
    /\ N[Last(path)] = 1

\* choose(Root) was called on a non-terminal root that has recorded children
ChoseAtRoot ==
    /\ op = "choose"
    /\ chooseArg = Root
    /\ ~is_terminal(Root)
    /\ Root \in DOMAIN children
    /\ children[Root] # <<>>

\* the node returned by choose has the largest average among the visited
\* children of the root
BestVisited ==
    \A c \in Range(children[Root]) :
       N[c] > 0 => N[chosen] > 0 /\ Q[c] * N[chosen] <= Q[chosen] * N[c]

\* C4 (as stated): for a non-terminal root with recorded children choose(root)
\* returns the child of largest average reward and never a child with zero
\* visits, after any number of rollouts from the root, one included.
C4_Original ==
    ChoseAtRoot =>
       /\ err = "none"
       /\ chosen \in Range(children[Root])
       /\ BestVisited
       /\ N[chosen] > 0

\* C4 (amended): for a non-terminal root with recorded children choose(root)
\* returns the child of largest average reward among the visited children;
\* it never returns a child with zero visits after two or more rollouts from
\* the root, and after exactly one rollout, when no child has been visited,
\* it returns the first entry of children[root], which has zero visits.
C4_Amended ==
    ChoseAtRoot =>
       /\ err = "none"
       /\ chosen \in Range(children[Root])
       /\ BestVisited
       /\ rollouts >= 2 => N[chosen] > 0
       /\ rollouts = 1 => N[chosen] = 0 /\ chosen = children[Root][1]

\* choose preferred a visited child to a visited child of smaller average
\* and to an unvisited one
C4_Witness ==
    /\ ChoseAtRoot
    /\ rollouts >= 3
    /\ \E c \in Range(children[Root]) :
          N[c] > 0 /\ Q[c] * N[chosen] < Q[chosen] * N[c]

\* C5: choose on a terminal node raises (it returns no node) and leaves the
\* visit counts, the cumulative rewards and the children lists as they were.
C5_ChooseTerminal ==
    [][(op' = "choose" /\ is_terminal(chooseArg')) =>
         /\ err' = "RuntimeError"
         /\ chosen' = None
         /\ Q' = Q
         /\ N' = N
         /\ children' = children]_vars

\* choose raised on a terminal node the search has visited
C5_Witness ==
    /\ op = "choose"
    /\ err = "RuntimeError"
    /\ is_terminal(chooseArg)
    /\ chooseArg \in DOMAIN children
    /\ N[chooseArg] >= 1

\* C6: whenever _select runs the UCT step at a node, every entry of
\* children[node] is a key of the children map: the assertion of _uct_select
\* fails in no do_rollout.
C6_UctPrecondition ==
    [][rollouts' = rollouts + 1 =>
         /\ err' # "AssertionError"
         /\ \A i \in DOMAIN uctAt' :
               /\ uctAt'[i] \in DOMAIN children
               /\ \A c \in Range(children[uctAt'[i]]) : c \in DOMAIN children]_vars

\* a rollout ran the UCT step at two nodes in a row
C6_Witness ==
    /\ op = "do_rollout"
    /\ err = "none"
    /\ Len(uctAt) >= 2

\* C7: the reward of a simulation is +1 when the playout ended with winner
\* FIRST and -1 otherwise, which is WinLossRewardFunction.calculate(state,
\* FIRST) of the final state; a terminal leaf yields its reward with no
\* act() call.
C7_SimulationReward ==
    (rollouts >= 1 /\ err = "none") =>
       /\ simEnd \in Nodes
       /\ winner[simEnd] \in Players
       /\ reward \in {1, -1}
       /\ (reward = 1) = (winner[simEnd] = FIRST)
       /\ reward = calculate(simEnd, FIRST)
       /\ simEnd \in ReachFrom(kids, nodeState[Last(path)])
       /\ is_terminal(Last(path)) => actCalls = 0 /\ simEnd = nodeState[Last(path)]
       /\ ~is_terminal(Last(path)) => actCalls >= 1

\* a terminal leaf won by SECOND was simulated
C7_Witness ==
    /\ op = "do_rollout"
    /\ is_terminal(Last(path))
    /\ actCalls = 0
    /\ reward = -1
    /\ winner[simEnd] = SECOND

C9_Expand ==
    [][(rollouts' = rollouts + 1 /\ err' = "none") =>
         LET leaf == Last(path') IN
         IF leaf \in DOMAIN children
         THEN /\ children' = children
              /\ expandCalls' = expandCalls
         ELSE /\ DOMAIN children' = DOMAIN children \cup {leaf}
              /\ children'[leaf] = kids[leaf]
              /\ \A n \in DOMAIN children : children'[n] = children[n]
              /\ expandCalls' = [expandCalls EXCEPT ![leaf] = 1]]_vars

\* a rollout ended in a leaf that had been expanded by an earlier rollout
C9_Witness ==
    /\ op = "do_rollout"
    /\ err = "none"
    /\ N[Last(path)] >= 2
    /\ expandCalls[Last(path)] = 1

\* ------------------------------------------------------------ rules engine
\* C11: in every reachable game state the winner is set if and only if the
\* phase is ENDED; in a state whose phase is ENDED every action fails and
\* leaves the state unchanged; the game loops, which run while the winner is
\* None, run exactly while the phase is not ENDED.
C11_Termination ==
    /\ (gameState.winner # None) <=> (gameState.phase = ENDED)
    /\ LoopRuns(gameState) <=> (gameState.phase # ENDED)
    /\ gameState.phase = ENDED =>
         \A a \in Actions :
            LET r == game_act(gameState, a)
            IN r.err # "none" /\ r.game = gameState

\* a game has ended and a further action was applied to it and rejected
C11_Witness ==
    /\ gameState.phase = ENDED
    /\ gameState.winner \in Players
    /\ lastErr = "MalformedActionError"
    /\ asked = <<>>

C13_WinDetection ==
    /\ \A p \in Players :
          gameState.players[p].health <= 0 =>
             /\ gameState.phase = ENDED
             /\ gameState.winner \in Players \ {p}
    /\ \A a \in Actions :
          LET r == game_act(gameState, a) IN
          /\ \A p \in Players :
                r.game.players[p].health <= 0 =>
                   /\ r.game.phase = ENDED
                   /\ r.game.winner \in Players \ {p}
          /\ gameState.phase = ENDED => r.err # "none" /\ r.game = gameState
          /\ ( /\ gameState.phase = BATTLE
               /\ gameState.current_player = SECOND
               /\ gameState.players[FIRST].health = 1
               /\ a.type = "ATTACK"
               /\ a.target = None
               /\ \E w \in Where(gameState, SECOND, a.origin) :
                     gameState.players[SECOND].lanes[w[1]][w[2]].attack >= 1 )
             => r.err = "none" /\ r.game.phase = ENDED /\ r.game.winner = SECOND

\* an action has just brought the health of FIRST to 0 and ended the game
C13_Witness ==
    /\ gameState.phase = ENDED
    /\ gameState.winner = SECOND
    /\ gameState.players[FIRST].health = 0
    /\ gameState.current_player = SECOND
    /\ gameState.players[SECOND].lanes[LEFT] # <<>>
    /\ lastErr = "none"

\* the creature with this id on the board of player p
CreatureOf(g, p, id) ==
    LET w == CHOOSE w \in Where(g, p, id) : TRUE IN g.players[p].lanes[w[1]][w[2]]

\* C14: an ATTACK of a creature (attack >= 1) on a creature whose ward flag
\* is set changes nothing in the state but that flag, which it clears: the
\* target takes no damage and the attacker is as before.  The same ATTACK
\* applied once more, on the now unwarded creature, takes the attacker's
\* attack off the target's defense, and removes the target when that leaves
\* 0 or less.
C14_WardShield ==
    \A a \in Actions :
       LET p == gameState.current_player
           q == (p + 1) % 2
       IN ( /\ gameState.phase = BATTLE
            /\ a.type = "ATTACK"
            /\ Where(gameState, p, a.origin) # {}
            /\ a.target # None
            /\ Where(gameState, q, a.target) # {}
            /\ CreatureOf(gameState, q, a.target).ward
            /\ CreatureOf(gameState, p, a.origin).attack >= 1 )
          => LET w == CHOOSE w \in Where(gameState, q, a.target) : TRUE
                 c == CreatureOf(gameState, q, a.target)
                 left == c.defense - CreatureOf(gameState, p, a.origin).attack
                 r == game_act(gameState, a)
                 r2 == game_act(r.game, a)
             IN /\ r.err = "WardShieldError"
                /\ r.game = [gameState EXCEPT
                               !.players[q].lanes[w[1]][w[2]].ward = FALSE]
                /\ r2.err = "none"
                /\ IF left <= 0
                   THEN /\ Where(r2.game, q, a.target) = {}
                        /\ r2.game = [r.game EXCEPT !.players[q].lanes[w[1]] =
                                         RemoveAt(r.game.players[q].lanes[w[1]], w[2])]
                   ELSE r2.game = [r.game EXCEPT
                                     !.players[q].lanes[w[1]][w[2]].defense = left]

\* a creature that came with a ward shield has lost the shield to a first
\* attack and a part of its defense to a second
C14_Witness ==
    /\ gameState.phase = BATTLE
    /\ lastErr = "none"
    /\ \E q \in Players : \E l \in Lanes :
          /\ gameState.current_player # q
          /\ gameState.players[q].lanes[l] # <<>>
          /\ LET c == gameState.players[q].lanes[l][1]
             IN /\ CardDB[c.tpl].ward
                /\ ~c.ward
                /\ c.defense < CardDB[c.tpl].defense
          /\ \E k \in Lanes : gameState.players[(q + 1) % 2].lanes[k] # <<>>

\* the card with this id in the hand of player p
HandCard(g, p, id) ==
    LET i == CHOOSE i \in Find(g.players[p].hand, id) : TRUE
    IN CardDB[g.players[p].hand[i].tpl]

\* C15: in every reachable state, for each player, 0 <= mana <= base mana <=
\* mana cap; the turn a PASS begins has the base mana one higher, up to the
\* cap, and the mana equal to it; a SUMMON or USE of a card in hand that
\* costs more than the current mana is rejected with NotEnoughManaError, and
\* an accepted one takes the cost off the mana.
C15_ManaBounds ==
    /\ \A p \in Players :
          /\ 0 <= gameState.players[p].mana
          /\ gameState.players[p].mana <= gameState.players[p].base_mana
          /\ gameState.players[p].base_mana <= ManaCap
    /\ \A a \in Actions :
          LET p == gameState.current_player
              q == (p + 1) % 2
              r == game_act(gameState, a)
          IN /\ (gameState.phase = BATTLE /\ a.type = "PASS" /\ r.err \notin ActionErrors)
                => /\ r.game.players[q].base_mana =
                        IF gameState.players[q].base_mana < ManaCap
                        THEN gameState.players[q].base_mana + 1 ELSE ManaCap
                   /\ r.game.players[q].mana = r.game.players[q].base_mana
                   /\ r.game.players[p].mana = gameState.players[p].mana
             /\ ( /\ gameState.phase = BATTLE
                  /\ a.type \in {"SUMMON", "USE"}
                  /\ Find(gameState.players[p].hand, a.origin) # {} )
                => LET cost == HandCard(gameState, p, a.origin).cost
                   IN /\ (cost > gameState.players[p].mana /\ r.err # "MalformedActionError")
                         => r.err = "NotEnoughManaError" /\ r.game = gameState
                      /\ r.err = "none"
                         => /\ cost <= gameState.players[p].mana
                            /\ r.game.players[p].mana = gameState.players[p].mana - cost

\* a third turn has begun with the base mana held at the cap, and a card has
\* been paid for since
C15_Witness ==
    /\ gameState.phase = BATTLE
    /\ gameState.turn = 4
    /\ gameState.players[FIRST].base_mana = ManaCap
    /\ gameState.players[FIRST].mana < ManaCap
    /\ gameState.current_player = FIRST
    /\ lastErr = "none"

\* C16: in every reachable state the hand of each player holds at most
\* HandCapacity cards and each of the two lanes of each player holds at most
\* LaneCapacity creatures; a SUMMON of an affordable creature card in hand
\* into a lane at capacity fails with FullLaneError and changes nothing; the
\* draw of a turn that begins with the hand at capacity and a card in the
\* deck signals FullHandError and leaves the hand as it was.
C16_Capacity ==
    /\ \A p \in Players :
          /\ Len(gameState.players[p].hand) <= HandCapacity
          /\ \A l \in Lanes : Len(gameState.players[p].lanes[l]) <= LaneCapacity
    /\ \A a \in Actions :
          LET p == gameState.current_player
              q == (p + 1) % 2
              r == game_act(gameState, a)
          IN /\ ( /\ gameState.phase = BATTLE
                  /\ a.type = "SUMMON"
                  /\ a.target \in Lanes
                  /\ Find(gameState.players[p].hand, a.origin) # {}
                  /\ HandCard(gameState, p, a.origin).kind = "creature"
                  /\ HandCard(gameState, p, a.origin).cost <= gameState.players[p].mana
                  /\ Len(gameState.players[p].lanes[a.target]) >= LaneCapacity )
                => r.err = "FullLaneError" /\ r.game = gameState
             /\ ( /\ gameState.phase = BATTLE
                  /\ a.type = "PASS"
                  /\ r.err \notin ActionErrors
                  /\ Len(gameState.players[q].hand) >= HandCapacity
                  /\ gameState.players[q].deck # <<>> )
                => /\ r.err = "FullHandError"
                   /\ r.game.players[q].hand = gameState.players[q].hand
                   /\ r.game.players[q].deck = Tail(gameState.players[q].deck)

\* a turn has just begun with a draw into a hand at capacity, while a lane of
\* the other player is at capacity
C16_Witness ==
    /\ gameState.phase = BATTLE
    /\ lastErr = "FullHandError"
    /\ Len(gameState.players[gameState.current_player].hand) = HandCapacity
    /\ \E l \in Lanes :
          Len(gameState.players[(gameState.current_player + 1) % 2].lanes[l])
              = LaneCapacity

\* C17: along every sequence of applied actions the phase stays the same or
\* moves forward in the order DRAFT (0), BATTLE (1), ENDED (2); the phase
\* leaves DRAFT only for BATTLE, and only with the PICK that brings the
\* second of the two decks to the draft size (in the state after it each
\* player holds DraftSize cards in deck and hand).
C17_PhaseOrder ==
    [][ /\ gameState.phase \in {DRAFT, BATTLE, ENDED}
        /\ gameState'.phase \in {DRAFT, BATTLE, ENDED}
        /\ gameState'.phase >= gameState.phase
        /\ (gameState.phase = DRAFT /\ gameState'.phase # DRAFT)
           => /\ gameState'.phase = BATTLE
              /\ \A p \in Players :
                    /\ Len(gameState.players[p].deck) >= DraftSize - 1
                    /\ Len(gameState'.players[p].deck)
                         + Len(gameState'.players[p].hand) = DraftSize
        /\ gameState'.phase = DRAFT
           => \E p \in Players : Len(gameState'.players[p].deck) < DraftSize
      ]_vars

\* the draft is over and the battle has begun; the game has ended later on
C17_Witness ==
    /\ gameState.phase = ENDED
    /\ gameState.turn >= 1
    /\ lastErr = "none"
    /\ \A p \in Players : Len(gameState.players[p].deck) < DraftSize

\* ------------------------------------------------------------------ search
\* C19: no step removes a key of the children map, changes the children list
\* of a node that is a key, or decreases a visit count; a do_rollout adds at
\* most one key, and a key it adds is the selected leaf (the last node of
\* its path), which was not a key before.
C19_Growth ==
    [][ /\ DOMAIN children \subseteq DOMAIN children'
        /\ \A n \in DOMAIN children : children'[n] = children[n]
        /\ \A n \in Nodes : N'[n] >= N[n]
        /\ Cardinality(DOMAIN children' \ DOMAIN children) <= 1
        /\ DOMAIN children' # DOMAIN children
           => /\ op' = "do_rollout"
              /\ err' = "none"
              /\ DOMAIN children' \ DOMAIN children = {Last(path')}
        /\ (op' = "do_rollout" /\ rollouts' = rollouts + 1 /\ err' = "none")
           => Last(path') \in DOMAIN children'
      ]_vars

\* rollouts have added keys, and the last one selected a leaf that was a key
\* already and added none
C19_Witness ==
    /\ op = "do_rollout"
    /\ err = "none"
    /\ rollouts >= 3
    /\ Cardinality(DOMAIN children) >= 2
    /\ Cardinality(DOMAIN children) < rollouts
    /\ N[Last(path)] >= 2

\* ---------------------------------------------------------------- game loops
\* C20: in every round of a game loop (of _simulate and of evaluate) exactly
\* one act call is made; it is made on the state as it is before the round's
\* action is applied, to the agent of that state's current player, and the
\* action applied to that state is the one the round took from the call; in
\* evaluate the agent asked is the current player's draft bot while the phase
\* is DRAFT and the current player's battle bot otherwise.
C20_ActCalls ==
    [][ IF asked' = <<>> THEN lastAct' = <<>>
        ELSE /\ Len(asked') = 1
             /\ Len(lastAct') = 1
             /\ asked'[1].state = gameState
             /\ asked'[1].who.id = gameState.current_player
             /\ asked'[1].who.role \in {"agent", "draft", "battle"}
             /\ asked'[1].who.role = "draft" => gameState.phase = DRAFT
             /\ asked'[1].who.role = "battle" => gameState.phase # DRAFT
             /\ gameState.winner = None
             /\ lastAct'[1] \in Actions
             /\ gameState' = game_act(gameState, lastAct'[1]).game
             /\ lastErr' = game_act(gameState, lastAct'[1]).err
      ]_vars

\* a round of evaluate has asked the battle bot of SECOND and applied its
\* attack
C20_Witness ==
    /\ asked # <<>>
    /\ asked[1].who = [role |-> "battle", id |-> SECOND]
    /\ asked[1].state.phase = BATTLE
    /\ asked[1].state # gameState
    /\ lastAct # <<>>
    /\ lastAct[1].type = "ATTACK"

\* ------------------------------------------------------------- termination
\* what a do_rollout that has been called still has before it: the loops that
\* remain, and the positions that remain below the one its loop stands at
\* (the successors of a position carry larger numbers than the position)
Remaining ==
    IF pc = "select" THEN 3 * (MaxNode + 2) + (MaxNode + 1 - cur)
    ELSE IF pc = "expand" THEN 2 * (MaxNode + 2)
    ELSE IF pc = "simulate" THEN (MaxNode + 2) + (MaxNode + 1 - simEnd)
    ELSE IF pc = "backpropagate" THEN 1
    ELSE 0

\* the expression Remaining in the state after a step
RemainingAfter ==
    IF pc' = "select" THEN 3 * (MaxNode + 2) + (MaxNode + 1 - cur')
    ELSE IF pc' = "expand" THEN 2 * (MaxNode + 2)
    ELSE IF pc' = "simulate" THEN (MaxNode + 2) + (MaxNode + 1 - simEnd')
    ELSE IF pc' = "backpropagate" THEN 1
    ELSE 0

\* C18: every do_rollout that is called returns.  A call that has not
\* returned can always take a step (a round of the walk of _select has no
\* condition but its result, which is defined; the other steps are enabled:
\* a playout that has no winner yet has a legal action to play), and every
\* step it takes brings it
\* nearer to its return: a round of the walk of _select goes down to a
\* child or ends the walk at a leaf (or with an exception of _uct_select), a
\* round of the loop of _simulate moves the game on, and that loop is left
\* only in a state whose winner is set.  This holds also in games in which a
\* position is reached along different sequences of actions.
C18_Termination ==
    /\ [](/\ pc = "select"
              => LET r == SelectRound(Self, cur, path, uctAt)
                 IN /\ r.node \in Nodes
                    /\ r.err \in {"none", "ZeroDivisionError", "ValueError"}
           /\ (pc = "expand" => ENABLED ExpandStep)
           /\ pc = "simulate"
              => ENABLED ((\E i \in 1..2 : PlayoutStep(i)) \/ SimulateReturn)
           /\ (pc = "backpropagate" => ENABLED BackpropStep))
    /\ [][ /\ pc # "idle" => RemainingAfter < Remaining
           /\ (pc = "select" /\ pc' # "select")
              => \/ pc' = "idle" /\ err' # "none"
                 \/ /\ pc' = "expand"
                    /\ LET leaf == Last(path')
                       IN \/ leaf \notin DOMAIN children
                          \/ children[leaf] = <<>>
                          \/ is_terminal(leaf)
           /\ (pc = "simulate" /\ pc' # "simulate")
              => pc' = "backpropagate" /\ winner[simEnd'] # None
      ]_vars

\* a do_rollout has returned whose walk went down by a call of _uct_select,
\* in a game with a position that two different sequences of actions reach,
\* and whose playout ended in a state with a winner
C18_Witness ==
    /\ pc = "idle"
    /\ op = "do_rollout"
    /\ err = "none"
    /\ rollouts >= 3
    /\ Len(uctAt) >= 1
    /\ \E n \in Range(kids[Root]) :
          \E m \in Range(kids[Root]) : n # m /\ m \in Range(kids[n])
    /\ winner[simEnd] # None

\* ---------------------------------------------------- visit counts of keys
\* C22: after every completed do_rollout every key of the children map has
\* a visit count of at least 1.  So no do_rollout computes a UCT score with
\* N[parent] = 0 or N[child] = 0: at every node at which a rollout runs
\* _uct_select, the node and all entries of children[node] have counts of
\* at least 1 in the tables the rollout starts from, and no rollout ends
\* with a division by zero or a logarithm of zero.
C22_KeysVisited ==
    /\ []((op = "do_rollout" /\ err = "none")
             => \A n \in DOMAIN children : N[n] >= 1)
    /\ [][rollouts' = rollouts + 1 =>
            /\ err' \notin {"ZeroDivisionError", "ValueError"}
            /\ \A i \in DOMAIN uctAt' :
                  /\ N[uctAt'[i]] >= 1
                  /\ \A c \in Range(children[uctAt'[i]]) : N[c] >= 1]_vars

\* a completed rollout ran _uct_select at a node, reached a leaf that was
\* no key before, and left the leaf with one visit
C22_Witness ==
    /\ op = "do_rollout"
    /\ err = "none"
    /\ Len(uctAt) >= 1
    /\ Last(path) \in DOMAIN children
    /\ N[Last(path)] = 1
    /\ expandCalls[Last(path)] = 1
    /\ Cardinality(DOMAIN children) >= 3

\* ------------------------------------------------- the move choose returns
\* the sum of the simulated outcomes of the rollouts through node c, counted
\* for player p: +1 for a win of p and -1 for a loss.  Q[c] holds that sum
\* counted for the player to move at c (_backpropagate adds the reward, which
\* is +1 for a win of FIRST, when that player is FIRST and subtracts it
\* otherwise).
OutcomeFor(p, c) == IF current_player(c) = p THEN Q[c] ELSE -Q[c]

\* choose(root) has returned with every child of the root visited
ChoseAmongVisited ==
    /\ ChoseAtRoot
    /\ \A c \in Range(children[Root]) : N[c] >= 1

\* C23: when all children of the root have been visited, choose(root)
\* returns the child whose average simulated outcome for the player to move
\* at the root is the largest, whether the player to move at the child is
\* the same player or the opponent.
C23_BestForMover ==
    ChoseAmongVisited =>
       /\ err = "none"
       /\ chosen \in Range(children[Root])
       /\ \A c \in Range(children[Root]) :
             OutcomeFor(current_player(Root), c) * N[chosen]
                <= OutcomeFor(current_player(Root), chosen) * N[c]

\* the same statement for the children at which the player to move is the
\* player to move at the root
C23_SameMover ==
    (ChoseAmongVisited /\ \A c \in Range(children[Root]) :
                             current_player(c) = current_player(Root))
       => /\ err = "none"
          /\ chosen \in Range(children[Root])
          /\ \A c \in Range(children[Root]) :
                OutcomeFor(current_player(Root), c) * N[chosen]
                   <= OutcomeFor(current_player(Root), chosen) * N[c]

\* --------------------------------------------- hyperparameter adjustment
\* the numbers train_and_eval is given are both at least 1
GivenAtLeastOne == given.n_steps >= 2 /\ given.nminibatches >= 2

\* d divides n_steps and exceeds neither the nminibatches given nor n_steps
FitsSteps(d) ==
    /\ d \in 1..params.n_steps
    /\ params.n_steps % d = 0
    /\ 2 * d <= given.nminibatches

\* C24: for every n_steps >= 1 and nminibatches >= 1 the adjustment ends,
\* without an exception, and it ends with 1 <= nminibatches <= n_steps and
\* n_steps % nminibatches = 0, nminibatches being the largest divisor of
\* n_steps that exceeds neither the nminibatches given nor n_steps.  While
\* the loop runs nminibatches stays at least 1.
C24_Adjustment ==
    /\ [](GivenAtLeastOne =>
            /\ pcTrain # "ZeroDivisionError"
            /\ pcTrain = "while" => params.nminibatches >= 1
            /\ pcTrain = "build" =>
                  /\ params.n_steps = int(given.n_steps)
                  /\ 1 <= params.nminibatches
                  /\ params.nminibatches <= params.n_steps
                  /\ params.n_steps % params.nminibatches = 0
                  /\ FitsSteps(params.nminibatches)
                  /\ \A d \in 1..(MaxSteps + 1) :
                        FitsSteps(d) => d <= params.nminibatches)
    /\ [](GivenAtLeastOne => <>(pcTrain = "build"))

\* the adjustment has ended after the loop has lowered an nminibatches that
\* was below n_steps by more than one, for numbers given that are no integers
C24_Witness ==
    /\ pcTrain = "build"
    /\ GivenAtLeastOne
    /\ given.n_steps % 2 = 1
    /\ given.nminibatches % 2 = 1
    /\ int(given.nminibatches) < params.n_steps
    /\ params.nminibatches + 2 <= int(given.nminibatches)
    /\ params.nminibatches >= 2

\* --------------------------------------------------------- the shared tally
\* after pool.map has returned the tally has grown by the games evaluated
\* and by the games among them that FIRST won
NoUpdateLost ==
    runpc = "done" =>
       /\ returned.games = n_games
       /\ final = <<returned.first, n_games>>
       /\ wins_by_p0 = final

\* the pair a worker has read for its progress line is a pair the tally
\* held when some worker had written both entries under the lock, and it
\* counts the worker's own game
PairsWrittenTogether ==
    \A w \in Workers :
       wpc[w] \in {"release", "print"} =>
          /\ seen[w] \in Range(written)
          /\ seen[w][2] >= 1
          /\ seen[w][1] <= seen[w][2]

\* C21 (as stated): with any number of workers in any interleaving no
\* update of the tally is lost, at every moment wins_by_p0[0] <=
\* wins_by_p0[1], and the pair a worker reads was written together under
\* the lock.
C21_Original ==
    /\ NoUpdateLost
    /\ wins_by_p0[1] <= wins_by_p0[2]
    /\ PairsWrittenTogether

\* C21 (amended): no update of the tally is lost; wins_by_p0[0] <=
\* wins_by_p0[1] at every moment at which no worker holds the lock, and
\* while a worker holds it wins_by_p0[0] exceeds wins_by_p0[1] by 1 at
\* most (after the first entry has been stored and before the second is);
\* the pair a worker reads was written together under the lock.
C21_Amended ==
    /\ NoUpdateLost
    /\ lock = None => wins_by_p0[1] <= wins_by_p0[2]
    /\ wins_by_p0[1] <= wins_by_p0[2] + 1
    /\ wins_by_p0[1] > wins_by_p0[2]
          => lock \in Workers /\ wpc[lock] \in {"fetch_games", "store_games"}
    /\ PairsWrittenTogether

\* two workers have evaluated three games between them, FIRST winning the
\* first and the third to be counted, and run has read the tally
C21_Witness ==
    /\ runpc = "done"
    /\ processes = 2
    /\ n_games = 3
    /\ final = <<2, 3>>
    /\ written = << <<1, 1>>, <<1, 2>>, <<2, 3>> >>

====
